---- MODULE Spec2Model ----
(***************************************************************************)
(* Model of src/dataset.py: the synthetic food-freshness dataset generator *)
(* (PPM variant with Remaining Shelf Life).                                *)
(*                                                                         *)
(* Number representation.  The program computes with binary floats; the    *)
(* model computes with exact fixed-point integers:                         *)
(*   - a gas concentration is an integer number of 1/PPM ppm (milli-ppm);  *)
(*   - a normalised value, a score and an hour count before int() is an    *)
(*     integer number of 1/ONE (ONE is a common multiple of every range    *)
(*     width times 3, so every division of the code is exact);             *)
(*   - a draw of rand() / of the fraction behind uniform(lo, hi) is an     *)
(*     integer number of 1/RAND_ONE in [0, 1);                             *)
(*   - a draw of the standard normal behind normal(loc, scale) is a whole  *)
(*     number of standard deviations.                                      *)
(* A float the program computes differs from the exact value by a rounding *)
(* error far smaller than a fixed-point unit.  The error decides nothing   *)
(* but the side of a discontinuity: int() of a value that is exactly an    *)
(* integer, round(x, 2) of a value exactly on a tie x.xx5.  Its sign is a  *)
(* draw of the call (-1 or 1), and round() and int() are applied to the    *)
(* value in half units, 2 * x + sign, clipped to the doubled bounds (a     *)
(* clipped value is the bound itself, which is exact).                     *)
(* The returned row holds round(nh3_ppm, 2) in milli-ppm (a multiple of    *)
(* 10) and the int() fields as plain integers.                             *)
(***************************************************************************)
EXTENDS Integers, Sequences, FiniteSets, TLC

VARIABLES
    pc,          \* main: the statement main is about to execute
    NUM_ROWS,    \* configured total row count (line 6)
    data,        \* main: the list `data`
    file,        \* the output file: << >> when absent, else <<its lines>>
    out,         \* the messages printed so far
    log,         \* history: the steps main has executed, in order
    fresh_call,  \* << >> or <<locals of the last generate_fresh_row call>>
    bad_call     \* << >> or <<locals of the last generate_bad_row call>>

vars == <<pc, NUM_ROWS, data, file, out, log, fresh_call, bad_call>>

(***************************************************************************)
(* Bounds of the model and fixed-point resolutions                         *)
(***************************************************************************)
MaxRows == 2

PPM == 1000
ONE == 5400000
RAND_ONE == 1000

(***************************************************************************)
(* Configuration (lines 6-37)                                              *)
(***************************************************************************)
FreshRowsRoundedUp == (NUM_ROWS + 1) \div 2
FRESH_ROWS == NUM_ROWS \div 2
BAD_ROWS == NUM_ROWS - FRESH_ROWS

HEADER == <<"MQ135_Analog", "MQ3_Analog", "MiCS5524_Analog", "Output", "RSL_Hours">>

NH3_FRESH_RANGE_UpTo6 == <<0, 6 * PPM>>
MQ135_NH3_FRESH_RANGE == <<0, 3 * PPM>>
MQ135_NH3_BAD_RANGE == <<6 * PPM, 15 * PPM>>
CO2_FRESH_RANGE == <<500 * PPM, 700 * PPM>>
CO2_BAD_RANGE == <<900 * PPM, 1200 * PPM>>
MICS5524_CH4_FRESH_RANGE == <<200 * PPM, 300 * PPM>>
MICS5524_CH4_BAD_RANGE == <<400 * PPM, 600 * PPM>>

(***************************************************************************)
(* numpy / builtin primitives                                              *)
(***************************************************************************)
Min(a, b) == IF a < b THEN a ELSE b
Max(a, b) == IF a > b THEN a ELSE b

\* np.clip(x, lo, hi) = minimum(maximum(x, lo), hi)
ClipLowOnly(x, lo, hi) == Max(x, lo)
Clip(x, lo, hi) == Min(Max(x, lo), hi)

\* np.random.uniform(lo, hi) = lo + (hi - lo) * t, t the underlying draw in [0, 1)
Uniform(lo, hi, t) == lo + ((hi - lo) \div RAND_ONE) * t

\* np.random.normal(loc, scale) = loc + scale * z, z a standard normal draw
Normal(loc, scale, z) == loc + scale * z

\* the float computed for the exact value x, in half units: x plus a rounding
\* error of sign e
Float(x, e) == 2 * x + e

\* np.clip of a float in half units to the exact bounds lo, hi
ClipFloatNone(x, e, lo, hi) == Float(x, e)
ClipFloat(x, e, lo, hi) == Clip(Float(x, e), 2 * lo, 2 * hi)

\* round(h, 2) of a ppm float h in half units of 1/PPM: the nearest hundredth,
\* ties to even (rint); the result in 1/PPM
Round2(h) ==
    LET c == (2 * PPM) \div 100
        q == h \div c
        r == h % c
    IN  IF 2 * r > c \/ (2 * r = c /\ q % 2 = 1)
        THEN ((q + 1) * PPM) \div 100 ELSE (q * PPM) \div 100

\* int(h) of a float h in half units, `unit` units per 1: truncation towards zero
ToInt(h, unit) == IF h >= 0 THEN h \div (2 * unit) ELSE -((-h) \div (2 * unit))

\* (x - range[0]) / (range[1] - range[0]) in units of 1/ONE
Normalize(x, range) == (x - range[1]) * (ONE \div (range[2] - range[1]))

(***************************************************************************)
(* generate_fresh_row (lines 39-92).  d holds the random draws of one      *)
(* call, in call order; the result holds the call's locals, `ret` being    *)
(* the returned list.                                                      *)
(***************************************************************************)
generate_fresh_row(d) ==
    LET nh3_base == Uniform(MQ135_NH3_FRESH_RANGE[1], MQ135_NH3_FRESH_RANGE[2], d.nh3_t)
        nh3_raw == Normal(nh3_base, (3 * PPM) \div 10, d.nh3_z)
        nh3_ppm == Clip(nh3_raw, MQ135_NH3_FRESH_RANGE[1], MQ135_NH3_FRESH_RANGE[2])
        nh3_flt == ClipFloat(nh3_raw, d.nh3_e,
                             MQ135_NH3_FRESH_RANGE[1], MQ135_NH3_FRESH_RANGE[2])
        co2_base == Uniform(CO2_FRESH_RANGE[1], CO2_FRESH_RANGE[2], d.co2_t)
        co2_raw == Normal(co2_base, 20 * PPM, d.co2_z)
        co2_ppm == Clip(co2_raw, CO2_FRESH_RANGE[1], CO2_FRESH_RANGE[2])
        co2_flt == ClipFloat(co2_raw, d.co2_e, CO2_FRESH_RANGE[1], CO2_FRESH_RANGE[2])
        ch4_base == Uniform(MICS5524_CH4_FRESH_RANGE[1], MICS5524_CH4_FRESH_RANGE[2], d.ch4_t)
        ch4_raw == Normal(ch4_base, 10 * PPM, d.ch4_z)
        ch4_ppm == Clip(ch4_raw, MICS5524_CH4_FRESH_RANGE[1], MICS5524_CH4_FRESH_RANGE[2])
        ch4_flt == ClipFloat(ch4_raw, d.ch4_e,
                             MICS5524_CH4_FRESH_RANGE[1], MICS5524_CH4_FRESH_RANGE[2])
        nh3_norm == Normalize(nh3_ppm, MQ135_NH3_FRESH_RANGE)
        co2_norm == Normalize(co2_ppm, CO2_FRESH_RANGE)
        ch4_norm == Normalize(ch4_ppm, MICS5524_CH4_FRESH_RANGE)
        avg_freshness == (nh3_norm + co2_norm + ch4_norm) \div 3
        base_rsl == 168 * ONE - avg_freshness * (168 - 24)
        rsl_hours == ToInt(ClipFloat(base_rsl + Uniform(-12 * ONE, 12 * ONE, d.rsl_t),
                                     d.rsl_e, 24 * ONE, 168 * ONE), ONE)
    IN  [nh3_ppm |-> nh3_ppm, co2_ppm |-> co2_ppm, ch4_ppm |-> ch4_ppm,
         nh3_norm |-> nh3_norm, co2_norm |-> co2_norm, ch4_norm |-> ch4_norm,
         score |-> avg_freshness, base_rsl |-> base_rsl,
         ret |-> <<Round2(nh3_flt), ToInt(co2_flt, PPM), ToInt(ch4_flt, PPM), 1, rsl_hours>>]

(***************************************************************************)
(* generate_bad_row (lines 94-190)                                         *)
(***************************************************************************)
\* lines 115, 133, 151: the if / elif / else over rand_type (in 1/RAND_ONE)
SubtypeWrongWeights(rand_type) ==
    IF rand_type * 100 < 60 * RAND_ONE THEN 1
    ELSE IF rand_type * 100 < 90 * RAND_ONE THEN 2 ELSE 3
Subtype(rand_type) ==
    IF rand_type * 100 < 40 * RAND_ONE THEN 1
    ELSE IF rand_type * 100 < 80 * RAND_ONE THEN 2 ELSE 3

\* per subtype and sensor: <<base lo, base hi, noise scale, clip lo, clip hi>>
BadParams(type) ==
    IF type = 1 THEN
        [nh3 |-> <<8 * PPM, MQ135_NH3_BAD_RANGE[2], (8 * PPM) \div 10,
                   (65 * PPM) \div 10, MQ135_NH3_BAD_RANGE[2]>>,
         co2 |-> <<900 * PPM, 1000 * PPM, 25 * PPM, 850 * PPM, 1050 * PPM>>,
         ch4 |-> <<350 * PPM, 450 * PPM, 15 * PPM, 300 * PPM, 500 * PPM>>]
    ELSE IF type = 2 THEN
        [nh3 |-> <<6 * PPM, 10 * PPM, (6 * PPM) \div 10, (55 * PPM) \div 10, 11 * PPM>>,
         co2 |-> <<950 * PPM, 1150 * PPM, 30 * PPM, 900 * PPM, 1200 * PPM>>,
         ch4 |-> <<450 * PPM, MICS5524_CH4_BAD_RANGE[2], 20 * PPM,
                   400 * PPM, MICS5524_CH4_BAD_RANGE[2]>>]
    ELSE
        [nh3 |-> <<10 * PPM, MQ135_NH3_BAD_RANGE[2], PPM,
                   9 * PPM, MQ135_NH3_BAD_RANGE[2]>>,
         co2 |-> <<1000 * PPM, CO2_BAD_RANGE[2], 35 * PPM, 950 * PPM, CO2_BAD_RANGE[2]>>,
         ch4 |-> <<500 * PPM, MICS5524_CH4_BAD_RANGE[2], 25 * PPM,
                   450 * PPM, MICS5524_CH4_BAD_RANGE[2]>>]

\* base = uniform(lo, hi); ppm = clip(normal(base, scale), clip lo, clip hi):
\* the exact value, and the float in half units
Sample(p, t, z) == Clip(Normal(Uniform(p[1], p[2], t), p[3], z), p[4], p[5])
SampleFloat(p, t, z, e) == ClipFloat(Normal(Uniform(p[1], p[2], t), p[3], z), e, p[4], p[5])

generate_bad_row(d) ==
    LET type == Subtype(d.rand_type)
        p == BadParams(type)
        nh3_ppm == Sample(p.nh3, d.nh3_t, d.nh3_z)
        co2_ppm == Sample(p.co2, d.co2_t, d.co2_z)
        ch4_ppm == Sample(p.ch4, d.ch4_t, d.ch4_z)
        nh3_norm == Normalize(nh3_ppm, MQ135_NH3_BAD_RANGE)
        co2_norm == Normalize(co2_ppm, CO2_BAD_RANGE)
        ch4_norm == Normalize(ch4_ppm, MICS5524_CH4_BAD_RANGE)
        avg_spoilage == (nh3_norm + co2_norm + ch4_norm) \div 3
        base_rsl == 23 * ONE - avg_spoilage * 23
        rsl_hours == ToInt(ClipFloat(base_rsl + Uniform(-3 * ONE, 3 * ONE, d.rsl_t),
                                     d.rsl_e, 0, 23 * ONE), ONE)
    IN  [rand_type |-> d.rand_type, type |-> type,
         nh3_ppm |-> nh3_ppm, co2_ppm |-> co2_ppm, ch4_ppm |-> ch4_ppm,
         nh3_norm |-> nh3_norm, co2_norm |-> co2_norm, ch4_norm |-> ch4_norm,
         score |-> avg_spoilage, base_rsl |-> base_rsl,
         ret |-> <<Round2(SampleFloat(p.nh3, d.nh3_t, d.nh3_z, d.nh3_e)),
                   ToInt(SampleFloat(p.co2, d.co2_t, d.co2_z, d.co2_e), PPM),
                   ToInt(SampleFloat(p.ch4, d.ch4_t, d.ch4_z, d.ch4_e), PPM),
                   0, rsl_hours>>]

(***************************************************************************)
(* The inputs of a call: its random draws and the signs of its rounding    *)
(* errors.  The draws hold the extremes that drive a sample below its      *)
(* lower clip bound, inside the bounds and above its upper clip bound;     *)
(* every draw of a call is independent of the others.                      *)
(***************************************************************************)
TDraws == {1, RAND_ONE - 1}
ZDraws == {-4, 4}
JitterDraws == {0, RAND_ONE \div 2, RAND_ONE - 1}
RandTypeDraws ==
    {0, (40 * RAND_ONE) \div 100 - 1, (40 * RAND_ONE) \div 100,
     (80 * RAND_ONE) \div 100 - 1, (80 * RAND_ONE) \div 100, RAND_ONE - 1}
ErrDraws == {-1, 1}

FreshDrawsOf(T, Z, J) ==
    [nh3_t : T, nh3_z : Z, nh3_e : ErrDraws, co2_t : T, co2_z : Z, co2_e : ErrDraws,
     ch4_t : T, ch4_z : Z, ch4_e : ErrDraws, rsl_t : J, rsl_e : ErrDraws]
BadDrawsOf(R, T, Z, J) ==
    [rand_type : R, nh3_t : T, nh3_z : Z, nh3_e : ErrDraws, co2_t : T, co2_z : Z,
     co2_e : ErrDraws, ch4_t : T, ch4_z : Z, ch4_e : ErrDraws, rsl_t : J, rsl_e : ErrDraws]

FreshDraws == FreshDrawsOf(TDraws, ZDraws, JitterDraws)
BadDraws == BadDrawsOf(RandTypeDraws, TDraws, ZDraws, JitterDraws)

\* main holds several rows at once, so it draws from fewer values: one base
\* fraction and one jitter, one rand_type per subtype, each normal draw free
MainTDraws == {RAND_ONE - 1}
MainJitterDraws == {RAND_ONE \div 2}
MainRandTypeDraws == {0, (40 * RAND_ONE) \div 100, (80 * RAND_ONE) \div 100}
MainFreshDraws == FreshDrawsOf(MainTDraws, ZDraws, MainJitterDraws)
MainBadDraws == BadDrawsOf(MainRandTypeDraws, MainTDraws, ZDraws, MainJitterDraws)

(***************************************************************************)
(* main (lines 192-220)                                                    *)
(***************************************************************************)
Init ==
    /\ pc = "start"
    /\ NUM_ROWS \in 0..MaxRows
    /\ data = << >>
    /\ file \in {<< >>, << <<"stale">> >>}
    /\ out = << >>
    /\ log = << >>
    /\ fresh_call = << >>
    /\ bad_call = << >>

\* the position after n rows were appended: the two for loops, then the shuffle
LoopPcBadFirst(n) ==
    IF n < BAD_ROWS THEN "bad" ELSE IF n < NUM_ROWS THEN "fresh" ELSE "shuffle"
LoopPc(n) ==
    IF n < FRESH_ROWS THEN "fresh" ELSE IF n < NUM_ROWS THEN "bad" ELSE "shuffle"

\* lines 196-197
Start ==
    /\ pc = "start"
    /\ out' = Append(out, <<"Generating", NUM_ROWS>>)
    /\ data' = << >>
    /\ pc' = LoopPc(0)
    /\ log' = Append(log, "start")
    /\ UNCHANGED <<NUM_ROWS, file, fresh_call, bad_call>>

\* lines 200-201, one iteration
GenerateFresh ==
    /\ pc = "fresh"
    /\ \E d \in MainFreshDraws :
          /\ fresh_call' = <<generate_fresh_row(d)>>
          /\ data' = Append(data, generate_fresh_row(d).ret)
    /\ pc' = LoopPc(Len(data) + 1)
    /\ log' = Append(log, "fresh")
    /\ UNCHANGED <<NUM_ROWS, file, out, bad_call>>

\* lines 204-205, one iteration
GenerateBad ==
    /\ pc = "bad"
    /\ \E d \in MainBadDraws :
          /\ bad_call' = <<generate_bad_row(d)>>
          /\ data' = Append(data, generate_bad_row(d).ret)
    /\ pc' = LoopPc(Len(data) + 1)
    /\ log' = Append(log, "bad")
    /\ UNCHANGED <<NUM_ROWS, file, out, fresh_call>>

\* lines 208 and 211: random.shuffle(data) leaves any permutation of data
Shuffle ==
    /\ pc = "shuffle"
    /\ \E p \in Permutations(1..Len(data)) :
          data' = [i \in 1..Len(data) |-> data[p[i]]]
    /\ out' = Append(out, <<"Writing">>)
    /\ pc' = "open"
    /\ log' = Append(log, "shuffle")
    /\ UNCHANGED <<NUM_ROWS, file, fresh_call, bad_call>>

\* line 213: open(..., 'w') truncates the file
OpenFileAppending ==
    /\ pc = "open"
    /\ file' = file
    /\ pc' = "header"
    /\ log' = Append(log, "open")
    /\ UNCHANGED <<NUM_ROWS, data, out, fresh_call, bad_call>>
OpenFile ==
    /\ pc = "open"
    /\ file' = << >>
    /\ pc' = "header"
    /\ log' = Append(log, "open")
    /\ UNCHANGED <<NUM_ROWS, data, out, fresh_call, bad_call>>

\* how often main has executed a step, and the rows writerows has written
Count(seq, x) == Cardinality({i \in DOMAIN seq : seq[i] = x})
RowsWritten == Count(log, "row")

\* the position after the header and n rows are in the file
AfterLine(n) == IF n < Len(data) THEN "rows" ELSE "close"

\* line 215
WriteHeader ==
    /\ pc = "header"
    /\ file' = Append(file, HEADER)
    /\ pc' = AfterLine(0)
    /\ log' = Append(log, "header")
    /\ UNCHANGED <<NUM_ROWS, data, out, fresh_call, bad_call>>

\* line 216: writerows writes the rows of data in order, one line each
WriteRow ==
    /\ pc = "rows"
    /\ file' = Append(file, data[RowsWritten + 1])
    /\ pc' = AfterLine(RowsWritten + 1)
    /\ log' = Append(log, "row")
    /\ UNCHANGED <<NUM_ROWS, data, out, fresh_call, bad_call>>

\* lines 213 (end of the with block), 217-218
CloseFile ==
    /\ pc = "close"
    /\ out' = out \o << <<"Done">>, <<"Success", Len(data)>> >>
    /\ pc' = "done"
    /\ log' = Append(log, "close")
    /\ UNCHANGED <<NUM_ROWS, data, file, fresh_call, bad_call>>

\* lines 219-220: open, a write or the closing flush raises IOError; the file
\* keeps what was written
WriteFailsAndSucceeds ==
    /\ pc \in {"open", "header", "rows", "close"}
    /\ out' = out \o << <<"Error">>, <<"Success", Len(data)>> >>
    /\ pc' = "done"
    /\ log' = Append(log, "error")
    /\ UNCHANGED <<NUM_ROWS, data, file, fresh_call, bad_call>>
WriteFails ==
    /\ pc \in {"open", "header", "rows", "close"}
    /\ out' = Append(out, <<"Error">>)
    /\ pc' = "done"
    /\ log' = Append(log, "error")
    /\ UNCHANGED <<NUM_ROWS, data, file, fresh_call, bad_call>>

Next ==
    \/ Start
    \/ GenerateFresh
    \/ GenerateBad
    \/ Shuffle
    \/ OpenFile
    \/ WriteHeader
    \/ WriteRow
    \/ CloseFile
    \/ WriteFails

Spec == Init /\ [][Next]_vars

(***************************************************************************)
(* The row generators on their own: one call of each, over every draw      *)
(***************************************************************************)
GenInit == Init /\ NUM_ROWS = 0 /\ file = << >>

CallFresh ==
    /\ fresh_call = << >>
    /\ \E d \in FreshDraws : fresh_call' = <<generate_fresh_row(d)>>
    /\ UNCHANGED <<pc, NUM_ROWS, data, file, out, log, bad_call>>

CallBad ==
    /\ bad_call = << >>
    /\ \E d \in BadDraws : bad_call' = <<generate_bad_row(d)>>
    /\ UNCHANGED <<pc, NUM_ROWS, data, file, out, log, fresh_call>>

GenNext == CallFresh \/ CallBad

GenSpec == GenInit /\ [][GenNext]_vars

(***************************************************************************)
(* Properties                                                              *)
(***************************************************************************)
Calls == {fresh_call[i] : i \in DOMAIN fresh_call} \cup {bad_call[i] : i \in DOMAIN bad_call}
FreshRets == {fresh_call[i].ret : i \in DOMAIN fresh_call}
BadRets == {bad_call[i].ret : i \in DOMAIN bad_call}
Between(x, lo, hi) == lo <= x /\ x <= hi
Labelled(l) == {i \in DOMAIN data : data[i][4] = l}
CountMsg(kind) == Cardinality({i \in DOMAIN out : out[i][1] = kind})

\* C1: every row returned by generate_fresh_row has its rounded NH3 field in
\* [0.0, 3.0] ppm, its truncated CO2 field in [500, 700] and its truncated CH4
\* field in [200, 300], whatever the base and noise draws.
C1_FreshWithinClipBounds ==
    \A r \in FreshRets :
        /\ Between(r[1], 0, 3 * PPM)
        /\ Between(r[2], 500, 700)
        /\ Between(r[3], 200, 300)

\* a fresh row whose NH3 and CH4 samples were clipped from above and whose CO2
\* sample was clipped from below
C1_Witness ==
    \E r \in FreshRets : r[1] = 3 * PPM /\ r[2] = 500 /\ r[3] = 300

\* C2: generate_bad_row picks subtype 1 iff u < 0.40, subtype 2 iff
\* 0.40 <= u < 0.80 and subtype 3 iff u >= 0.80, and the returned fields lie in
\* the clip bounds of the subtype picked.
C2_SubtypeAndClipBounds ==
    \A i \in DOMAIN bad_call :
        LET c == bad_call[i]
            u == c.rand_type
            r == c.ret
        IN  /\ c.type \in {1, 2, 3}
            /\ (c.type = 1) <=> (10 * u < 4 * RAND_ONE)
            /\ (c.type = 2) <=> (4 * RAND_ONE <= 10 * u /\ 10 * u < 8 * RAND_ONE)
            /\ (c.type = 3) <=> (10 * u >= 8 * RAND_ONE)
            /\ c.type = 1 =>
                  /\ Between(2 * r[1], 13 * PPM, 30 * PPM)
                  /\ Between(r[2], 850, 1050)
                  /\ Between(r[3], 300, 500)
            /\ c.type = 2 =>
                  /\ Between(2 * r[1], 11 * PPM, 22 * PPM)
                  /\ Between(r[2], 900, 1200)
                  /\ Between(r[3], 400, 600)
            /\ c.type = 3 =>
                  /\ Between(r[1], 9 * PPM, 15 * PPM)
                  /\ Between(r[2], 950, 1200)
                  /\ Between(r[3], 450, 600)

\* a subtype 2 row drawn exactly at the 0.40 threshold, NH3 clipped to 5.5
C2_Witness ==
    \E i \in DOMAIN bad_call :
        /\ 10 * bad_call[i].rand_type = 4 * RAND_ONE
        /\ bad_call[i].type = 2
        /\ 2 * bad_call[i].ret[1] = 11 * PPM
        /\ bad_call[i].ret[2] = 1200

\* C3: RSL_Hours is an integer in [24, 168] on a row labelled 1 and in [0, 23]
\* on a row labelled 0, so a fresh and a bad row never share an RSL_Hours value.
C3_RslRangesDisjoint ==
    /\ \A c \in Calls :
          /\ c.ret[5] \in Int
          /\ c.ret[4] = 1 => Between(c.ret[5], 24, 168)
          /\ c.ret[4] = 0 => Between(c.ret[5], 0, 23)
    /\ \A f \in FreshRets : f[4] = 1
    /\ \A b \in BadRets : b[4] = 0
    /\ \A f \in FreshRets : \A b \in BadRets : f[5] # b[5]

\* the two ranges meet: a fresh row clipped to 24 hours beside a bad row
\* clipped to 23 hours
C3_Witness ==
    \E f \in FreshRets : \E b \in BadRets : f[5] = 24 /\ b[5] = 23

\* C4: once the rows are generated, and after the shuffle, data holds exactly
\* NUM_ROWS rows, floor(NUM_ROWS / 2) of them labelled 1 (one per call of
\* generate_fresh_row) and the rest labelled 0 (one per call of generate_bad_row).
C4_RowCountsAndLabels ==
    pc \in {"shuffle", "open", "header", "rows", "close", "done"} =>
        /\ Len(data) = NUM_ROWS
        /\ Cardinality(Labelled(1)) = NUM_ROWS \div 2
        /\ Cardinality(Labelled(0)) = NUM_ROWS - NUM_ROWS \div 2
        /\ Count(log, "fresh") = NUM_ROWS \div 2
        /\ Count(log, "bad") = NUM_ROWS - NUM_ROWS \div 2

\* a run with rows of both kinds, shuffled so that the bad row comes first
C4_Witness ==
    /\ pc = "done"
    /\ NUM_ROWS >= 2
    /\ data[1][4] = 0 /\ data[2][4] = 1

\* C5: when the write succeeds the file holds exactly NUM_ROWS + 1 lines, the
\* header first, then one line of 5 fields in header order per row of data,
\* and the success message reports NUM_ROWS rows.
C5_FileOnSuccess ==
    CountMsg("Success") > 0 =>
        /\ Len(file) = NUM_ROWS + 1
        /\ file[1] = HEADER
        /\ \A i \in 2..Len(file) :
              /\ Len(file[i]) = Len(HEADER)
              /\ file[i] = data[i - 1]
              /\ file[i][4] \in {0, 1}
              /\ file[i][4] = 1 <=> file[i][5] >= 24
        /\ \A i \in DOMAIN out : out[i][1] = "Success" => out[i][2] = NUM_ROWS

\* a successful run that wrote at least two rows
C5_Witness ==
    /\ pc = "done"
    /\ CountMsg("Success") = 1
    /\ NUM_ROWS >= 2
    /\ Len(file) = NUM_ROWS + 1

\* C6: a failed open or write is reported exactly once, is not retried, prints
\* no success message and ends main normally; the success message is printed
\* only if the header and all rows were written.
C6_WriteFailure ==
    /\ Count(log, "open") <= 1
    /\ CountMsg("Error") = Count(log, "error")
    /\ Count(log, "error") > 0 =>
          /\ pc = "done"
          /\ CountMsg("Error") = 1
          /\ CountMsg("Success") = 0
          /\ log[Len(log)] = "error"
    /\ CountMsg("Success") > 0 =>
          /\ pc = "done"
          /\ Count(log, "header") = 1
          /\ Count(log, "row") = Len(data)
          /\ Len(data) = NUM_ROWS

\* a failure part-way through the rows: the header and some, not all, rows
\* are in the file
C6_Witness ==
    /\ pc = "done"
    /\ Count(log, "error") = 1
    /\ Count(log, "row") >= 1
    /\ Count(log, "row") < Len(data)

\* C7: every row returned by generate_bad_row has NH3 >= 6 ppm, CO2 >= 900 ppm
\* and CH4 >= 400 ppm: its fields lie in MQ135_NH3_BAD_RANGE, CO2_BAD_RANGE and
\* MICS5524_CH4_BAD_RANGE.
C7_BadWithinSpoiledZones ==
    \A r \in BadRets :
        /\ Between(r[1], 6 * PPM, 15 * PPM)
        /\ Between(r[2], 900, 1200)
        /\ Between(r[3], 400, 600)

\* C8: in both generators each normalised sensor value and their average lie
\* in [0, 1], so the shelf life before the jitter lies in [0, 23] hours on a bad
\* row and in [24, 168] hours on a fresh row.
C8_ScoresNormalised ==
    /\ \A c \in Calls :
          /\ Between(c.nh3_norm, 0, ONE)
          /\ Between(c.co2_norm, 0, ONE)
          /\ Between(c.ch4_norm, 0, ONE)
          /\ Between(c.score, 0, ONE)
    /\ \A i \in DOMAIN fresh_call : Between(fresh_call[i].base_rsl, 24 * ONE, 168 * ONE)
    /\ \A i \in DOMAIN bad_call : Between(bad_call[i].base_rsl, 0, 23 * ONE)

\* C9: main starts, generates every fresh row, then every bad row, shuffles
\* once, then opens the file at most once and writes the header before any
\* row; nothing is written before the shuffle and data does not change after it.
Rank(step) ==
    CASE step = "start" -> 0
      [] step = "fresh" -> 1
      [] step = "bad" -> 2
      [] step = "shuffle" -> 3
      [] step = "open" -> 4
      [] step = "header" -> 5
      [] step = "row" -> 6
      [] step = "close" -> 7
      [] step = "error" -> 8
InOrder(l) ==
    /\ \A i \in DOMAIN l : \A j \in DOMAIN l : i < j => Rank(l[i]) <= Rank(l[j])
    /\ \A s \in {"start", "shuffle", "open", "header", "close", "error"} : Count(l, s) <= 1
    /\ Count(l, "shuffle") = 1 =>
          Count(l, "fresh") = NUM_ROWS \div 2 /\ Count(l, "bad") = NUM_ROWS - NUM_ROWS \div 2
    /\ Count(l, "row") > 0 => Count(l, "header") = 1
    /\ Count(l, "header") > 0 => Count(l, "open") = 1
    /\ Count(l, "open") > 0 => Count(l, "shuffle") = 1
C9_StepOrder ==
    [][InOrder(log') /\ (Count(log, "shuffle") = 1 => data' = data)]_vars

\* a complete successful run with rows of both kinds
C9_Witness ==
    /\ pc = "done"
    /\ Count(log, "fresh") >= 1 /\ Count(log, "bad") >= 1
    /\ Count(log, "row") = NUM_ROWS
    /\ Count(log, "close") = 1

\* C10: a fresh row's NH3 and CO2 fields are strictly below any bad row's (fresh
\* NH3 <= 3.0 and CO2 <= 700, bad NH3 >= 5.5 and CO2 >= 850); the CH4 fields can
\* coincide, and only at 300; so no sensor triple carries both labels.
C10_ClassesSeparable ==
    /\ \A f \in FreshRets : f[1] <= 3 * PPM /\ f[2] <= 700
    /\ \A b \in BadRets : 2 * b[1] >= 11 * PPM /\ b[2] >= 850
    /\ \A f \in FreshRets : \A b \in BadRets :
          /\ f[1] < b[1]
          /\ f[2] < b[2]
          /\ f[3] = b[3] => f[3] = 300
          /\ <<f[1], f[2], f[3]>> # <<b[1], b[2], b[3]>>

\* a fresh and a bad row that share the CH4 value 300
C10_Witness ==
    \E f \in FreshRets : \E b \in BadRets : f[3] = 300 /\ b[3] = 300

====
